---- MODULE Spec2Model ----
(***************************************************************************)
(* A model of k2m-app/NANKANUMAI (src/keiba_bot.py, src/main.py).          *)
(*                                                                         *)
(* Five state machines share this module:                                  *)
(*   SpecDify  run_dify_prediction: the POST/retry loop and the reading of *)
(*             the streamed reply, one step per POST and per line;         *)
(*   Spec      run_races_iter driven by the loop of main(): one step per   *)
(*             call or yield of the generator;                             *)
(*   SpecNorm  normalize_name applied to bounded inputs;                   *)
(*   SpecMain  the race checkboxes of main() over the script runs;         *)
(*   SpecGrades  _parse_grades_from_ai and the matchup table built with    *)
(*             its result, applied to bounded inputs.                      *)
(* Python strings are TLA+ strings (non-ASCII text is transliterated), a   *)
(* Python value of another type is a record that carries its type.         *)
(***************************************************************************)
EXTENDS Integers, Sequences, FiniteSets, TLC

VARIABLES
  \* ---- run_dify_prediction
  d_pc,        \* position: "start", "post", "stream", "done"
  d_key,       \* DIFY_API_KEY is set
  d_posts,     \* calls of sess.post made so far (loop iterations begun)
  d_resp,      \* what each POST was answered with, in order
  d_lines,     \* lines of the current stream read so far
  d_full,      \* full_response of the current attempt
  d_slept,     \* seconds spent in time.sleep
  d_ret,       \* the value returned (NoValue until the function returns)
  \* ---- normalize_name
  n_pc, n_abbrev, n_list, n_result,
  \* ---- run_races_iter, and the loop of main() that consumes its events
  pc,            \* position of the generator
  mode,          \* "dify" or "raw"
  target_races,  \* set(selected_races_final)
  kai, nichi,    \* what get_nankan_kai_nichi returned
  r_nums,        \* race numbers of the programme page, ascending
  r_idx,         \* index in r_nums of the race of the for loop
  attempt,       \* attempt of the retry loop (0, 1, 2)
  danwa, cyokyo, \* comment and training maps of the last keibabook fetch
  nk_data,       \* parsed detail page of the last fetch
  full_prompt,   \* prompt built last
  ai_out,        \* reply of run_dify_prediction
  match_txt,     \* text of the matchup table
  events,        \* every event yielded so far, in order
  log,           \* history: the steps taken for each race, in order
  calls,         \* history: number of calls of each external operation
  ui,            \* main(): status area, errors shown, results_cache
  \* ---- main(): the race checkboxes of the sidebar, over the script runs
  m_chk,         \* st.session_state["chk_r"], for the keys r that exist
  m_selected,    \* st.session_state.selected_races (NoValue while absent)
  m_last,        \* what set off the last script run ("none" before the first)
  m_passed,      \* the call of run_races_iter in the last script run
  \* ---- _parse_grades_from_ai and _fetch_matchup_table_selenium
  g_pc,          \* position: "parse", "fetch", "done"
  g_text,        \* the AI reply, a sequence of lines
  g_rows,        \* the matchup page the browser shows
  g_grades,      \* the grades dict, as its items in insertion order
  g_out          \* the text returned, as its lines

dvars == <<d_pc, d_key, d_posts, d_resp, d_lines, d_full, d_slept, d_ret>>
nvars == <<n_pc, n_abbrev, n_list, n_result>>
rvars == <<pc, mode, target_races, kai, nichi, r_nums, r_idx, attempt, danwa, cyokyo,
           nk_data, full_prompt, ai_out, match_txt, events, log, calls, ui>>
mvars == <<m_chk, m_selected, m_last, m_passed>>
gvars == <<g_pc, g_text, g_rows, g_grades, g_out>>
vars == <<dvars, nvars, rvars, mvars, gvars>>

(***************************************************************************)
(* Python values.                                                          *)
(***************************************************************************)
PyStr(s) == [type |-> "str", s |-> s]
PyNone == [type |-> "NoneType", s |-> ""]
PyInt == [type |-> "int", s |-> ""]
NoValue == [type |-> "unset", s |-> ""]
IsStr(v) == v.type = "str"
\* Python truthiness of the values above (an int stands for a non-zero one)
Truthy(v) == IF v.type = "str" THEN v.s # "" ELSE v.type = "int"

(***************************************************************************)
(* get_http_session: Retry(total=3, backoff_factor=1,                      *)
(* status_forcelist=(500, 502, 503, 504)) mounted on the session.          *)
(* allowed_methods is left at urllib3's default, which has no POST.        *)
(***************************************************************************)
status_forcelist == {500, 502, 503, 504}
allowed_methods == {"HEAD", "GET", "PUT", "DELETE", "OPTIONS", "TRACE"}
\* urllib3 Retry.is_retry(method, status_code) for a reply without Retry-After
AdapterRetriesStatus(method, status) ==
  method \in allowed_methods /\ status \in status_forcelist

(***************************************************************************)
(* run_dify_prediction                                                     *)
(***************************************************************************)
max_retries == 3
Sleep429 == 60
SleepExc == 5
MaxLines == 2

StatusCodes == {200, 400, 429} \cup status_forcelist

MSG_KEY_UNSET == "DIFY_API_KEY unset"
MSG_RETRY_LIMIT == "retry limit exceeded"
MSG_GEN_ERROR == "(answer generation error)"
DifyError(status) == "Dify Error: " \o ToString(status)

\* One line of res.iter_lines(), by what the loop body tests:
\*   raw     "empty" (not line), "other" (no "data:" prefix), "data"
\*   json    "blank" (nothing after data:), "bad" (json.loads raises),
\*           "nondict" (valid JSON, no .get), "obj"
\*   event   data.get("event")
\*   outputs data["data"]["outputs"]: "null", "notext", "text"
\*   text    outputs["text"], or data["data"]["text"] of a chunk
Line(raw, json, event, outputs, text) ==
  [raw |-> raw, json |-> json, event |-> event, outputs |-> outputs, text |-> text]
Lines ==
  { Line("empty", "blank", "none", "null", PyNone),
    Line("other", "blank", "none", "null", PyNone),
    Line("data", "blank", "none", "null", PyNone),
    Line("data", "bad", "none", "null", PyNone),
    Line("data", "nondict", "none", "null", PyNone),
    Line("data", "obj", "ping", "null", PyNone),
    Line("data", "obj", "workflow_finished", "null", PyNone),
    Line("data", "obj", "workflow_finished", "notext", PyNone),
    Line("data", "obj", "workflow_finished", "text", PyStr("S:Alpha")),
    Line("data", "obj", "workflow_finished", "text", PyStr("")),
    Line("data", "obj", "workflow_finished", "text", PyNone),
    Line("data", "obj", "workflow_finished", "text", PyInt),
    Line("data", "obj", "text_chunk", "null", PyStr("A:")),
    Line("data", "obj", "message", "null", PyStr("Beta")),
    Line("data", "obj", "text_chunk", "null", PyStr("")),
    Line("data", "obj", "text_chunk", "null", PyNone) }

DifyInit ==
  /\ d_pc = "start"
  /\ d_key \in BOOLEAN
  /\ d_posts = 0
  /\ d_resp = <<>>
  /\ d_lines = 0
  /\ d_full = ""
  /\ d_slept = 0
  /\ d_ret = NoValue

DifyIdle ==
  /\ d_pc = "idle"
  /\ d_key = TRUE
  /\ d_posts = 0
  /\ d_resp = <<>>
  /\ d_lines = 0
  /\ d_full = ""
  /\ d_slept = 0
  /\ d_ret = NoValue

DifyReturn(v) ==
  /\ d_ret' = v
  /\ d_pc' = "done"

\* if not DIFY_API_KEY: return ...; otherwise enter the for loop
DifyStart ==
  /\ d_pc = "start"
  /\ IF ~d_key
       THEN DifyReturn(PyStr(MSG_KEY_UNSET))
       ELSE d_pc' = "post" /\ d_ret' = d_ret
  /\ UNCHANGED <<d_key, d_posts, d_resp, d_lines, d_full, d_slept, nvars, rvars, mvars, gvars>>

\* What sess.post hands to the code for a reply with this status: the
\* adapter retries the request itself only when Retry.is_retry says so, and
\* then raises RetryError once its retries are used up.
PostOutcome(status) ==
  IF AdapterRetriesStatus("POST", status) THEN "exception" ELSE ToString(status)

\* What the loop body does with the outcome o of sess.post: an exception
\* (timeout, connection error) -> sleep(5); 429 -> sleep(60); continue;
\* another status than 200 -> return the Dify Error text; 200 -> read the stream.
DifyAfterPost_429IsError(o) ==
  CASE o = "exception" ->
         /\ d_slept' = d_slept + SleepExc
         /\ UNCHANGED <<d_pc, d_ret>>
    [] o = ToString(200) ->
         /\ d_pc' = "stream"
         /\ UNCHANGED <<d_slept, d_ret>>
    [] OTHER ->
         /\ \E s \in StatusCodes : o = ToString(s) /\ DifyReturn(PyStr(DifyError(s)))
         /\ UNCHANGED d_slept

DifyAfterPost(o) ==
  CASE o = "exception" ->
         /\ d_slept' = d_slept + SleepExc
         /\ UNCHANGED <<d_pc, d_ret>>
    [] o = ToString(429) ->
         /\ d_slept' = d_slept + Sleep429
         /\ UNCHANGED <<d_pc, d_ret>>
    [] o = ToString(200) ->
         /\ d_pc' = "stream"
         /\ UNCHANGED <<d_slept, d_ret>>
    [] OTHER ->
         /\ \E s \in StatusCodes : o = ToString(s) /\ DifyReturn(PyStr(DifyError(s)))
         /\ UNCHANGED d_slept

\* One iteration of the for loop up to the status tests: full_response = "",
\* then sess.post(...) and the tests on its outcome. (Connection attempts that
\* the adapter repeats inside one sess.post call are not counted as POSTs.)
DifyPost ==
  /\ d_pc = "post"
  /\ d_posts < max_retries
  /\ d_posts' = d_posts + 1
  /\ d_full' = ""
  /\ d_lines' = 0
  /\ \E o \in {"exception"} \cup {PostOutcome(s) : s \in StatusCodes} :
       /\ d_resp' = Append(d_resp, o)
       /\ DifyAfterPost(o)
  /\ UNCHANGED <<d_key, nvars, rvars, mvars, gvars>>

\* The body of "for line in res.iter_lines()" for one line.
DifyLine ==
  /\ d_pc = "stream"
  /\ d_lines < MaxLines
  /\ d_lines' = d_lines + 1
  /\ \E l \in Lines :
       IF l.raw # "data" \/ l.json = "blank"
         THEN UNCHANGED <<d_pc, d_full, d_ret>>                \* continue
       ELSE IF l.json # "obj"
         THEN UNCHANGED <<d_pc, d_full, d_ret>>                \* except: pass
       ELSE IF l.event = "workflow_finished"
         THEN IF l.outputs = "text"
                THEN DifyReturn(l.text) /\ UNCHANGED d_full    \* return outputs["text"]
                ELSE UNCHANGED <<d_pc, d_full, d_ret>>         \* no text, or "in None" raises
       ELSE IF l.event \in {"text_chunk", "message"}
         THEN /\ d_full' = IF IsStr(l.text) THEN d_full \o l.text.s ELSE d_full
              /\ UNCHANGED <<d_pc, d_ret>>
       ELSE UNCHANGED <<d_pc, d_full, d_ret>>
  /\ UNCHANGED <<d_key, d_posts, d_resp, d_slept, nvars, rvars, mvars, gvars>>

\* iter_lines raises (broken stream, read timeout): except Exception: sleep(5)
DifyStreamBreak ==
  /\ d_pc = "stream"
  /\ d_pc' = "post"
  /\ d_slept' = d_slept + SleepExc
  /\ d_resp' = [d_resp EXCEPT ![Len(d_resp)] = "broken"]
  /\ UNCHANGED <<d_key, d_posts, d_lines, d_full, d_ret, nvars, rvars, mvars, gvars>>

\* The stream ends: return full_response if full_response else the error text
DifyStreamEnd ==
  /\ d_pc = "stream"
  /\ DifyReturn(PyStr(IF d_full # "" THEN d_full ELSE MSG_GEN_ERROR))
  /\ UNCHANGED <<d_key, d_posts, d_resp, d_lines, d_full, d_slept, nvars, rvars, mvars, gvars>>

\* The for loop is used up: return the retry-limit text
DifyExhausted ==
  /\ d_pc = "post"
  /\ d_posts >= max_retries
  /\ DifyReturn(PyStr(MSG_RETRY_LIMIT))
  /\ UNCHANGED <<d_key, d_posts, d_resp, d_lines, d_full, d_slept, nvars, rvars, mvars, gvars>>

(***************************************************************************)
(* normalize_name(abbrev, full_list). Names are sequences of characters.   *)
(***************************************************************************)
MaxAbbrevLen == 2
MaxNameLen == 2
MaxListLen == 2

Letters == {"a", "b"}
\* representatives of the class [ 　 marks \d \.] that re.sub removes
StripChars == {"*", "1"}

SeqsUpTo(S, n) == UNION {[1..k -> S] : k \in 0..n}
Range(f) == {f[i] : i \in DOMAIN f}

\* re.sub(r"[ ...\d\.]+", "", abbrev)
Clean(abbrev) == SelectSeq(abbrev, LAMBDA c : c \notin StripChars)

\* all(c in full for c in clean)
AllCharsIn(clean, full) == \A i \in 1..Len(clean) : clean[i] \in Range(full)

\* the list "candidates" after the for loop: (len(full) - len(clean), full)
\* for every full name that has all the characters, in list order
RECURSIVE CandidatesOf(_, _)
CandidatesOf(clean, full_list) ==
  IF full_list = <<>> THEN <<>>
  ELSE LET rest == CandidatesOf(clean, SubSeq(full_list, 1, Len(full_list) - 1))
           full == full_list[Len(full_list)]
       IN IF AllCharsIn(clean, full)
            THEN Append(rest, <<Len(full) - Len(clean), full>>)
            ELSE rest

\* x put into the sorted sequence s before the elements of equal key (not stable)
RECURSIVE InsertByKey_Unstable(_, _)
InsertByKey_Unstable(s, x) ==
  IF s = <<>> THEN <<x>>
  ELSE IF s[Len(s)][1] < x[1] THEN Append(s, x)
  ELSE Append(InsertByKey_Unstable(SubSeq(s, 1, Len(s) - 1), x), s[Len(s)])

\* x put into the sorted sequence s after every element whose key is <= its key
RECURSIVE InsertByKey(_, _)
InsertByKey(s, x) ==
  IF s = <<>> THEN <<x>>
  ELSE IF s[Len(s)][1] <= x[1] THEN Append(s, x)
  ELSE Append(InsertByKey(SubSeq(s, 1, Len(s) - 1), x), s[Len(s)])

\* candidates.sort(key=lambda x: x[0]): list.sort is stable
RECURSIVE SortByKey(_)
SortByKey(s) ==
  IF s = <<>> THEN <<>>
  ELSE InsertByKey(SortByKey(SubSeq(s, 1, Len(s) - 1)), s[Len(s)])

normalize_name(abbrev, full_list) ==
  IF abbrev = <<>> THEN <<>>
  ELSE LET clean == Clean(abbrev) IN
    IF clean = <<>> THEN <<>>
    ELSE IF full_list = <<>> THEN clean
    ELSE IF clean \in Range(full_list) THEN clean
    ELSE LET candidates == SortByKey(CandidatesOf(clean, full_list)) IN
      IF candidates # <<>> THEN candidates[1][2] ELSE clean

Abbrevs == SeqsUpTo(Letters \cup StripChars, MaxAbbrevLen)
FullNames == SeqsUpTo(Letters, MaxNameLen) \ {<<>>}
FullLists == SeqsUpTo(FullNames, MaxListLen)

NormInit ==
  /\ n_pc = "call"
  /\ n_abbrev \in Abbrevs
  /\ n_list \in FullLists
  /\ n_result = <<>>

NormIdle ==
  /\ n_pc = "idle"
  /\ n_abbrev = <<>>
  /\ n_list = <<>>
  /\ n_result = <<>>

NormCall ==
  /\ n_pc = "call"
  /\ n_result' = normalize_name(n_abbrev, n_list)
  /\ n_pc' = "done"
  /\ UNCHANGED <<n_abbrev, n_list, dvars, rvars, mvars, gvars>>

(***************************************************************************)
(* main(): the body of "for event in keiba_bot.run_races_iter(...)".       *)
(* A yield hands the event to this body, which runs before the generator   *)
(* goes on, so every yield below applies MainHandle to the event.          *)
(***************************************************************************)
\* earlier is history: results_cache as it was when the start button was clicked
UiInit == [status_area |-> <<"start">>, errors |-> <<>>, results_cache |-> <<>>,
           shown |-> <<>>, unhandled |-> <<>>, earlier |-> <<>>]

\* results_cache when the start button is clicked: empty in a new session, or
\* the results an earlier run left for races 2 and 3
EarlierText(r) == [prompt |-> << <<"header", r>> >>, link |-> <<1, 1, r>>]
EarlierCaches == {<<>>, [r \in {2, 3} |-> EarlierText(r)]}
UiBefore(cache) == [UiInit EXCEPT !.status_area = <<"none">>, !.results_cache = cache,
                                  !.earlier = cache]

\* a start that leaves the cache as it is
ClearCache_Keep(u) == u
\* st.session_state.results_cache = {}
ClearCache(u) == [u EXCEPT !.results_cache = <<>>]

MainHandle(u, event) ==
  IF event.type = "status"
    THEN [u EXCEPT !.status_area = event.data]
  ELSE IF event.type = "error"
    THEN [u EXCEPT !.errors = Append(@, event.data)]
  ELSE IF event.type = "result"
    THEN [u EXCEPT !.results_cache =
                       [k \in DOMAIN @ \cup {event.race_num} |->
                          IF k = event.race_num THEN event.data ELSE @[k]],
                   !.shown = Append(@, event.race_num),
                   !.status_area = <<"done", event.race_num>>]
  ELSE [u EXCEPT !.unhandled = Append(@, event)]      \* no branch of the if chain

Yield(e) ==
  /\ events' = Append(events, e)
  /\ ui' = MainHandle(ui, e)

Yield2(e1, e2) ==
  /\ events' = events \o <<e1, e2>>
  /\ ui' = MainHandle(MainHandle(ui, e1), e2)

\* The events of run_races_iter, one constructor per yield statement
StatusEvent(data) == [type |-> "status", data |-> data]
ErrorEvent(data) == [type |-> "error", data |-> data]
ResultEvent(r_num, data) == [type |-> "result", race_num |-> r_num, data |-> data]

RetryStatusEvent_Warning(r_num, att) ==
  [type |-> "warning", data |-> <<"retry after error", r_num, att + 1>>]
RetryStatusEvent(r_num, att) == StatusEvent(<<"retry after error", r_num, att + 1>>)

(***************************************************************************)
(* get_nankan_kai_nichi(month, day, place_name) on the schedule page.      *)
(* A row of the page is what the loop reads of a <tr>: the place names in  *)
(* its text, the number of "第N回" (None without a match), the number      *)
(* before the first "月" (None without a match), and the numbers 1..31     *)
(* after it.                                                               *)
(***************************************************************************)
None == 0 - 1
Row(places, k, mon, days) == [places |-> places, kai |-> k, mon |-> mon, days |-> days]

\* days_list.index(target_d) + 1
IndexOf(seq, x) == CHOOSE i \in 1..Len(seq) : seq[i] = x /\ \A j \in 1..(i - 1) : seq[j] # x

RowMatches(row, month, day, place_name) ==
  /\ place_name \in row.places
  /\ row.kai # None /\ row.mon # None /\ row.mon = month
  /\ day \in Range(row.days)

get_nankan_kai_nichi(month, day, place_name, page) ==
  IF page = <<"error">> THEN <<None, None>>             \* except Exception
  ELSE IF \E i \in 1..Len(page) : RowMatches(page[i], month, day, place_name)
    THEN LET i == CHOOSE i \in 1..Len(page) :
                    /\ RowMatches(page[i], month, day, place_name)
                    /\ \A j \in 1..(i - 1) : ~RowMatches(page[j], month, day, place_name)
         IN <<page[i].kai, IndexOf(page[i].days, day)>>
    ELSE <<None, None>>

\* "if not kai"
not_kai_NeverFalsy(k) == FALSE
not_kai(k) == k = None \/ k = 0

\* the date picked in main(): month and day as run_races_iter gets them
TargetDate == [month |-> 11, day |-> 3]
place_name == "Oi"
SchedulePages ==
  { <<"error">>,
    <<>>,
    << Row({"Kawasaki"}, 9, 11, <<3, 4, 5>>), Row({"Oi"}, 13, 10, <<3, 4>>),
       Row({"Oi"}, None, 11, <<3>>), Row({"Oi"}, 14, 11, <<4, 5, 6>>) >>,
    << Row({"Kawasaki"}, 9, 11, <<3, 4, 5>>), Row({"Oi"}, 14, 11, <<2, 3, 4>>),
       Row({"Oi"}, 15, 11, <<3>>) >> }

(***************************************************************************)
(* keibabook: both functions wrap their whole body in try/except Exception *)
(***************************************************************************)
\* login_keibabook_robust(driver) for what the browser does: "logged_in",
\* "form_ok", or "raises" (any WebDriver error). raised says whether the
\* exception leaves the function.
login_keibabook_robust(browser) ==
  [raised |-> FALSE, value |-> browser # "raises"]

UmabanKeys == {<<2>>, <<1, 0>>, <<0, 2>>}
EmptyMap == [u \in {} |-> ""]
\* the comment of horse u on the danwa page, its training text on the cyokyo page
DanwaText(u) == <<"comment of", u>>
CyokyoText(u) == <<"tanpyo and detail of", u>>

\* parse_kb_danwa_cyokyo(driver, kb_id) for what the browser does:
\*   "danwa_raises"  the first driver.get (or the parse of its page) raises
\*   "cyokyo_raises" the danwa page is read, the cyokyo fetch raises
\*   "partial"       both pages are read; each lists only some horses
parse_kb_danwa_cyokyo_Raises(browser) ==
  [raised |-> browser \in {"danwa_raises", "cyokyo_raises"},
   danwa |-> EmptyMap, cyokyo |-> EmptyMap]
parse_kb_danwa_cyokyo(browser) ==
  [raised |-> FALSE,
   danwa |-> CASE browser = "danwa_raises" -> EmptyMap
               [] browser = "cyokyo_raises" -> [u \in {<<2>>, <<1, 0>>} |-> DanwaText(u)]
               [] OTHER -> [u \in {<<2>>} |-> DanwaText(u)],
   cyokyo |-> CASE browser = "danwa_raises" -> EmptyMap
                [] browser = "cyokyo_raises" -> EmptyMap
                [] OTHER -> [u \in {<<1, 0>>} |-> CyokyoText(u)]]
KbBrowser == {"danwa_raises", "cyokyo_raises", "partial"}

(***************************************************************************)
(* The detail page and the prompt                                          *)
(***************************************************************************)
\* int(u) of an umaban given as its digits
RECURSIVE IntOf(_)
IntOf(u) == IF u = <<>> THEN 0 ELSE 10 * IntOf(SubSeq(u, 1, Len(u) - 1)) + u[Len(u)]

\* the horse that parse_nankankeiba_detail stores under umaban u
HistLen(u) == CASE u = <<2>> -> 2 [] u = <<1, 0>> -> 1 [] OTHER -> 0
HistOf(u) == [i \in 1..HistLen(u) |-> <<"race", i, "of", u>>]
HorseOf(u) == [name |-> <<"horse", u>>, jockey |-> <<"jockey", u>>,
               trainer |-> <<"trainer", u>>, display_power |-> <<"power", u>>,
               hist |-> HistOf(u)]

\* the keys of a dict filled from rows, in insertion order
RECURSIVE DictOrder(_)
DictOrder(rows) ==
  IF rows = <<>> THEN <<>>
  ELSE LET rest == DictOrder(SubSeq(rows, 1, Len(rows) - 1))
       IN IF rows[Len(rows)] \in Range(rest) THEN rest ELSE Append(rest, rows[Len(rows)])

\* parse_nankankeiba_detail: data["horses"] for a page whose table rows carry
\* these umaban, in row order
parse_nankankeiba_detail(rows) ==
  [order |-> DictOrder(rows), horses |-> [u \in Range(rows) |-> HorseOf(u)]]

DetailPages ==
  { <<>>,
    << <<1, 0>>, <<0, 2>>, <<2>>, <<1, 0>> >> }

\* sorted(nk_data["horses"].keys(), key=int)
SortedUmaban_DictOrder(keys) == keys
SortedUmaban(keys) ==
  LET sorted == SortByKey([i \in 1..Len(keys) |-> <<IntOf(keys[i]), keys[i]>>])
  IN [i \in 1..Len(sorted) |-> sorted[i][2]]

NoComment == "nashi"
NoTraining == "no data"

\* the list "block" of one horse
BlockOf(u, h, dw, ck) ==
  << <<"name line", u, h.name, h.jockey, h.trainer>>,
     <<"danwa", IF u \in DOMAIN dw THEN dw[u] ELSE NoComment>>,
     <<"cyokyo", IF u \in DOMAIN ck THEN ck[u] ELSE NoTraining>>,
     h.display_power,
     <<"recent races">> >> \o h.hist

\* full_prompt: the header, then the blocks of horse_texts
BuildPrompt(r_num, data, dw, ck) ==
  LET us == SortedUmaban(data.order)
  IN << <<"header", r_num>> >> \o [i \in 1..Len(us) |-> BlockOf(us[i], data.horses[us[i]], dw, ck)]

(***************************************************************************)
(* run_races_iter(year, month, day, place_code, target_races, mode)        *)
(***************************************************************************)
max_race_retries == 3
LastRace == 12      \* list(range(1, 13))

\* what main() can pass: the checked races, never empty (main stops before)
TargetSets == {{2}, {1, 2}}
\* race numbers of the links found on the programme page
ProgramLinkSets == {{}, {1, 2}, {3, 2}}
\* values run_dify_prediction can return: the outputs["text"] of the lines
\* of Lines that end the stream
DifyReturns == {PyStr("S:Alpha"), PyNone, PyInt}
MatchupTexts == {"(no matchup data)", "matchup table"}

\* list(set(r_nums)) left in an order that is not ascending
SortedSeq_Unsorted(S) ==
  CHOOSE f \in [1..Cardinality(S) -> S] :
    /\ Range(f) = S
    /\ Cardinality(S) > 1 => f[1] > f[2]

\* sorted(list(set(r_nums)))
RECURSIVE SortedSeq(_)
SortedSeq(S) ==
  IF S = {} THEN <<>>
  ELSE LET m == CHOOSE x \in S : \A y \in S : y <= x
       IN Append(SortedSeq(S \ {m}), m)

CallsInit == [get_driver |-> 0, kai_nichi |-> 0, login |-> 0, program |-> 0, kb |-> 0,
              detail |-> 0, dify |-> 0, matchup |-> 0, quit |-> 0]
Called(op) == calls' = [calls EXCEPT ![op] = @ + 1]

RacesInit ==
  /\ pc = "main"
  /\ mode \in {"dify", "raw"}
  /\ target_races \in TargetSets
  /\ kai = None /\ nichi = None
  /\ r_nums = <<>>
  /\ r_idx = 0
  /\ attempt = 0
  /\ danwa = EmptyMap /\ cyokyo = EmptyMap
  /\ nk_data = parse_nankankeiba_detail(<<>>)
  /\ full_prompt = <<>>
  /\ ai_out = NoValue
  /\ match_txt = ""
  /\ events = <<>>
  /\ log = <<>>
  /\ calls = CallsInit
  /\ ui \in {UiBefore(c) : c \in EarlierCaches}

RacesIdle ==
  /\ pc = "idle"
  /\ mode = "dify"
  /\ target_races = {}
  /\ kai = None /\ nichi = None
  /\ r_nums = <<>>
  /\ r_idx = 0
  /\ attempt = 0
  /\ danwa = EmptyMap /\ cyokyo = EmptyMap
  /\ nk_data = parse_nankankeiba_detail(<<>>)
  /\ full_prompt = <<>>
  /\ ai_out = NoValue
  /\ match_txt = ""
  /\ events = <<>>
  /\ log = <<>>
  /\ calls = CallsInit
  /\ ui = UiInit

r_num == r_nums[r_idx]
LogEntry(step) == [race |-> r_num, attempt |-> attempt, step |-> step]
Logged(step) == log' = Append(log, LogEntry(step))
Logged2(step1, step2) == log' = log \o <<LogEntry(step1), LogEntry(step2)>>
\* the race ends (break, or the retry loop is used up): on to the next r_num
NextRace == r_idx' = r_idx + 1 /\ pc' = "loop"
\* an exception inside the try of the retry loop
Raise == pc' = "except"

\* main(): if start_btn, with races selected: the cache is emptied, the status
\* area is created, and run_races_iter is called
MainStart ==
  /\ pc = "main"
  /\ ui' = [ClearCache(ui) EXCEPT !.status_area = <<"start">>]
  /\ pc' = "start"
  /\ UNCHANGED <<mode, target_races, kai, nichi, r_nums, r_idx, attempt, danwa, cyokyo,
                 nk_data, full_prompt, ai_out, match_txt, events, log, calls,
                 dvars, nvars, mvars, gvars>>

\* driver = get_driver(); the first yield of the try block
Start ==
  /\ pc = "start"
  /\ Called("get_driver")
  /\ Yield(StatusEvent(<<"resolving meeting", place_name>>))
  /\ pc' = "kai"
  /\ UNCHANGED <<mode, target_races, kai, nichi, r_nums, r_idx, attempt, danwa, cyokyo,
                 nk_data, full_prompt, ai_out, match_txt, log, dvars, nvars, mvars, gvars>>

\* kai, nichi = get_nankan_kai_nichi(...); if not kai: yield error; return.
\* Otherwise the two status yields that follow.
ResolveKaiNichi ==
  /\ pc = "kai"
  /\ Called("kai_nichi")
  /\ \E page \in SchedulePages :
       LET kn == get_nankan_kai_nichi(TargetDate.month, TargetDate.day, place_name, page) IN
       /\ kai' = kn[1]
       /\ nichi' = kn[2]
       /\ IF not_kai(kn[1])
            THEN /\ Yield(ErrorEvent(<<"meeting not found">>))
                 /\ pc' = "finally"
            ELSE /\ Yield2(StatusEvent(<<"meeting", place_name, kn[1], kn[2]>>),
                           StatusEvent(<<"keibabook login">>))
                 /\ pc' = "login"
  /\ UNCHANGED <<mode, target_races, r_nums, r_idx, attempt, danwa, cyokyo,
                 nk_data, full_prompt, ai_out, match_txt, log, dvars, nvars, mvars, gvars>>

\* login_keibabook_robust(driver); its value is not used
Login ==
  /\ pc = "login"
  /\ Called("login")
  /\ \E browser \in {"logged_in", "form_ok", "raises"} :
       IF login_keibabook_robust(browser).raised
         THEN pc' = "fatal"
         ELSE pc' = "program"
  /\ UNCHANGED <<mode, target_races, kai, nichi, r_nums, r_idx, attempt, danwa, cyokyo,
                 nk_data, full_prompt, ai_out, match_txt, events, ui, log, dvars, nvars, mvars, gvars>>

\* driver.get(prog_url), the wait for #program_list, the race numbers
Program ==
  /\ pc = "program"
  /\ Called("program")
  /\ \/ /\ pc' = "fatal"                      \* driver.get or page_source raises
        /\ UNCHANGED <<r_nums, r_idx, events, ui>>
     \/ /\ Yield(ErrorEvent(<<"program list timeout">>))   \* except TimeoutException
        /\ pc' = "finally"
        /\ UNCHANGED <<r_nums, r_idx>>
     \/ \E links \in ProgramLinkSets :
          /\ r_nums' = IF links # {} THEN SortedSeq(links) ELSE [i \in 1..LastRace |-> i]
          /\ r_idx' = 1
          /\ pc' = "loop"
          /\ UNCHANGED <<events, ui>>
  /\ UNCHANGED <<mode, target_races, kai, nichi, attempt, danwa, cyokyo,
                 nk_data, full_prompt, ai_out, match_txt, log, dvars, nvars, mvars, gvars>>

\* for r_num in r_nums: skip the races not selected; else the status yield,
\* and the retry loop starts
Loop ==
  /\ pc = "loop"
  /\ IF r_idx > Len(r_nums)
       THEN pc' = "finally" /\ UNCHANGED <<r_idx, attempt, events, ui>>
     ELSE IF target_races # {} /\ r_num \notin target_races
       THEN r_idx' = r_idx + 1 /\ UNCHANGED <<pc, attempt, events, ui>>
     ELSE /\ Yield(StatusEvent(<<"analysing", r_num>>))
          /\ attempt' = 0
          /\ pc' = "kb"
          /\ UNCHANGED r_idx
  /\ UNCHANGED <<mode, target_races, kai, nichi, r_nums, danwa, cyokyo,
                 nk_data, full_prompt, ai_out, match_txt, log, calls, dvars, nvars, mvars, gvars>>

\* danwa, cyokyo = parse_kb_danwa_cyokyo(driver, kb_id)
Kb ==
  /\ pc = "kb"
  /\ Called("kb")
  /\ Logged("kb")
  /\ \E browser \in KbBrowser :
       LET got == parse_kb_danwa_cyokyo(browser) IN
       IF got.raised
         THEN Raise /\ UNCHANGED <<danwa, cyokyo>>
         ELSE /\ danwa' = got.danwa
              /\ cyokyo' = got.cyokyo
              /\ pc' = "detail"
  /\ UNCHANGED <<mode, target_races, kai, nichi, r_nums, r_idx, attempt,
                 nk_data, full_prompt, ai_out, match_txt, events, ui, dvars, nvars, mvars, gvars>>

\* driver.get(shosai_url), _force_shosai_loaded, parse_nankankeiba_detail,
\* and the test for an empty result
Detail ==
  /\ pc = "detail"
  /\ Called("detail")
  /\ \/ /\ Raise                              \* driver.get or page_source raises
        /\ Logged("detail")
        /\ UNCHANGED <<nk_data, attempt, r_idx, events, ui>>
     \/ \E rows \in DetailPages :
          /\ nk_data' = parse_nankankeiba_detail(rows)
          /\ IF DOMAIN nk_data'.horses = {}
               THEN IF attempt < max_race_retries - 1
                      THEN /\ Logged("detail")
                           /\ \/ /\ Raise               \* driver.refresh() raises
                                 /\ UNCHANGED attempt
                              \/ /\ attempt' = attempt + 1    \* continue
                                 /\ pc' = "kb"
                           /\ UNCHANGED <<r_idx, events, ui>>
                      ELSE /\ Yield(ErrorEvent(<<"empty data", r_num>>))
                           /\ Logged2("detail", "error")
                           /\ NextRace                     \* break
                           /\ UNCHANGED attempt
               ELSE /\ pc' = "build"
                    /\ Logged("detail")
                    /\ UNCHANGED <<attempt, r_idx, events, ui>>
  /\ UNCHANGED <<mode, target_races, kai, nichi, r_nums, danwa, cyokyo,
                 full_prompt, ai_out, match_txt, dvars, nvars, mvars, gvars>>

\* header, horse_texts, full_prompt
Build ==
  /\ pc = "build"
  /\ Logged("prompt")
  /\ full_prompt' = BuildPrompt(r_num, nk_data, danwa, cyokyo)
  /\ pc' = "built"
  /\ UNCHANGED <<mode, target_races, kai, nichi, r_nums, r_idx, attempt, danwa, cyokyo,
                 nk_data, ai_out, match_txt, events, ui, calls, dvars, nvars, mvars, gvars>>

\* if mode == "raw"
IsRaw_Never(m) == FALSE
IsRaw(m) == m = "raw"

\* the step that follows the prompt in each mode
AfterBuilt_MatchupFirst(m) == IF IsRaw(m) THEN "loop" ELSE "matchup"
AfterBuilt(m) == IF IsRaw(m) THEN "loop" ELSE "dify"

\* if mode == "raw": yield the result; break. Otherwise the status yield
\* before the Dify call.
Built ==
  /\ pc = "built"
  /\ pc' = AfterBuilt(mode)
  /\ IF IsRaw(mode)
       THEN /\ Yield(ResultEvent(r_num, [prompt |-> full_prompt,
                                         link |-> <<kai, nichi, r_num>>]))
            /\ Logged("result")
            /\ r_idx' = r_idx + 1
       ELSE /\ Yield(StatusEvent(<<"AI predicting", r_num>>))
            /\ UNCHANGED <<log, r_idx>>
  /\ UNCHANGED <<mode, target_races, kai, nichi, r_nums, attempt, danwa, cyokyo,
                 nk_data, full_prompt, ai_out, match_txt, calls, dvars, nvars, mvars, gvars>>

\* ai_out = run_dify_prediction(full_prompt); grades = _parse_grades_from_ai(ai_out),
\* where (text or "").split raises for a value that is true and no string
Dify ==
  /\ pc = "dify"
  /\ Called("dify")
  /\ Logged("dify")
  /\ \E v \in DifyReturns :
       /\ ai_out' = v
       /\ IF Truthy(v) /\ ~IsStr(v)
            THEN Raise
            ELSE pc' = "matchup"
  /\ UNCHANGED <<mode, target_races, kai, nichi, r_nums, r_idx, attempt, danwa, cyokyo,
                 nk_data, full_prompt, match_txt, events, ui, dvars, nvars, mvars, gvars>>

\* match_txt = _fetch_matchup_table_selenium(driver, nk_id, grades): its body
\* is one try/except that returns a text either way
Matchup ==
  /\ pc = "matchup"
  /\ Called("matchup")
  /\ Logged("matchup")
  /\ match_txt' \in MatchupTexts
  /\ pc' = "emit"
  /\ UNCHANGED <<mode, target_races, kai, nichi, r_nums, r_idx, attempt, danwa, cyokyo,
                 nk_data, full_prompt, ai_out, events, ui, dvars, nvars, mvars, gvars>>

\* ai_out_clean, final_text, the result yield; break
Emit ==
  /\ pc = "emit"
  /\ Logged("result")
  /\ Yield(ResultEvent(r_num, [ai |-> IF Truthy(ai_out) THEN ai_out.s ELSE "",
                               match |-> match_txt,
                               link |-> <<kai, nichi, r_num>>]))
  /\ NextRace
  /\ UNCHANGED <<mode, target_races, kai, nichi, r_nums, attempt, danwa, cyokyo,
                 nk_data, full_prompt, ai_out, match_txt, calls, dvars, nvars, mvars, gvars>>

\* except Exception as e (of the retry loop): the retry status and
\* driver.delete_all_cookies(), or on the last attempt the error event
Except ==
  /\ pc = "except"
  /\ IF attempt < max_race_retries - 1
       THEN /\ Yield(RetryStatusEvent(r_num, attempt))
            /\ \/ /\ pc' = "fatal"            \* delete_all_cookies raises: leaves the handler
                  /\ UNCHANGED attempt
               \/ /\ attempt' = attempt + 1
                  /\ pc' = "kb"
            /\ UNCHANGED <<log, r_idx>>
       ELSE /\ Yield(ErrorEvent(<<"gave up", r_num>>))
            /\ Logged("error")
            /\ NextRace
            /\ UNCHANGED attempt
  /\ UNCHANGED <<mode, target_races, kai, nichi, r_nums, danwa, cyokyo,
                 nk_data, full_prompt, ai_out, match_txt, calls, dvars, nvars, mvars, gvars>>

\* except Exception as e (the outer one): yield the Fatal Error event
Fatal ==
  /\ pc = "fatal"
  /\ Yield(ErrorEvent(<<"Fatal Error">>))
  /\ pc' = "finally"
  /\ UNCHANGED <<mode, target_races, kai, nichi, r_nums, r_idx, attempt, danwa, cyokyo,
                 nk_data, full_prompt, ai_out, match_txt, log, calls, dvars, nvars, mvars, gvars>>

\* a generator that ends without quitting the driver
Finally_NoQuit ==
  /\ pc = "finally"
  /\ pc' = "done"
  /\ UNCHANGED <<mode, target_races, kai, nichi, r_nums, r_idx, attempt, danwa, cyokyo,
                 nk_data, full_prompt, ai_out, match_txt, events, ui, log, calls,
                 dvars, nvars, mvars, gvars>>

\* finally: driver.quit()
Finally ==
  /\ pc = "finally"
  /\ Called("quit")
  /\ pc' = "done"
  /\ UNCHANGED <<mode, target_races, kai, nichi, r_nums, r_idx, attempt, danwa, cyokyo,
                 nk_data, full_prompt, ai_out, match_txt, events, ui, log, dvars, nvars, mvars, gvars>>

(***************************************************************************)
(* main(): the race checkboxes of the sidebar.  Streamlit runs the script  *)
(* from top to bottom once when the page is opened and once after every    *)
(* interaction; an on_click callback runs before that script run, and a    *)
(* checkbox that is clicked has its new value in st.session_state[key]     *)
(* before it.                                                              *)
(***************************************************************************)
NumCheckboxes == 12      \* range(1, 13)
Races == 1..NumCheckboxes
DefaultSelected == <<10, 11, 12>>
Absent == [present |-> FALSE, value |-> <<>>]
Present(v) == [present |-> TRUE, value |-> v]
NotCalled == [called |-> FALSE, target_races |-> {}]

\* a loop that stops one race short
update_all_checkboxes_Short(chk, state) ==
  [r \in DOMAIN chk \cup 1..(NumCheckboxes - 1) |->
     IF r \in 1..(NumCheckboxes - 1) THEN state ELSE chk[r]]

\* for r in range(1, 13): st.session_state[f"chk_{r}"] = state
update_all_checkboxes(chk, state) ==
  [r \in DOMAIN chk \cup Races |-> IF r \in Races THEN state ELSE chk[r]]

\* if key_name not in st.session_state: ... = (r in st.session_state.selected_races)
RenderCheckboxes(chk, selected_races) ==
  [r \in Races |-> IF r \in DOMAIN chk THEN chk[r] ELSE r \in Range(selected_races)]

\* selected_races_final: r is appended, for r = 1..12 in turn, if its box is checked
selected_races_final(chk) == SelectSeq([r \in Races |-> r], LAMBDA r : chk[r])

\* one run of the script on the session state (chk, selected): the session
\* state it leaves and the call of run_races_iter it makes
script_run(chk, selected, start_btn) ==
  LET selected_races == IF selected.present THEN selected.value ELSE DefaultSelected
      rendered == RenderCheckboxes(chk, selected_races)
      final == selected_races_final(rendered)
  IN [chk |-> rendered,
      selected |-> Present(final),
      passed |-> IF start_btn /\ final # <<>>
                   THEN [called |-> TRUE, target_races |-> Range(final)]
                   ELSE NotCalled]

MainInit ==
  /\ m_chk = <<>>
  /\ m_selected = Absent
  /\ m_last = "none"
  /\ m_passed = NotCalled

MainIdle ==
  /\ m_chk = <<>>
  /\ m_selected = Absent
  /\ m_last = "idle"
  /\ m_passed = NotCalled

ScriptRun(chk, start_btn, what) ==
  LET run == script_run(chk, m_selected, start_btn) IN
  /\ m_chk' = run.chk
  /\ m_selected' = run.selected
  /\ m_passed' = run.passed
  /\ m_last' = what
  /\ UNCHANGED <<dvars, nvars, rvars, gvars>>

\* the page is opened: the first script run of the session
Load ==
  /\ m_last = "none"
  /\ ScriptRun(m_chk, FALSE, "load")

\* the "select all" button
SelectAll ==
  /\ m_last \notin {"none", "idle"}
  /\ ScriptRun(update_all_checkboxes(m_chk, TRUE), FALSE, "select_all")

\* the "deselect all" button
DeselectAll ==
  /\ m_last \notin {"none", "idle"}
  /\ ScriptRun(update_all_checkboxes(m_chk, FALSE), FALSE, "deselect_all")

\* a click on the checkbox of race r
Toggle ==
  /\ m_last \notin {"none", "idle"}
  /\ \E r \in Races : ScriptRun([m_chk EXCEPT ![r] = ~@], FALSE, "toggle")

\* the start button
StartClick ==
  /\ m_last \notin {"none", "idle"}
  /\ ScriptRun(m_chk, TRUE, "start")

\* the "clear results" button: the script runs up to st.rerun() and runs again
ClearClick ==
  /\ m_last \notin {"none", "idle"}
  /\ LET first == script_run(m_chk, m_selected, FALSE)
         again == script_run(first.chk, first.selected, FALSE)
     IN /\ m_chk' = again.chk
        /\ m_selected' = again.selected
        /\ m_passed' = again.passed
        /\ m_last' = "clear"
  /\ UNCHANGED <<dvars, nvars, rvars, gvars>>

(***************************************************************************)
(* _parse_grades_from_ai(text) and _fetch_matchup_table_selenium(driver,   *)
(* nankan_id, grades).  A line and a name are sequences of characters; the *)
(* grades dict is the sequence of its items <<name, grade>> in insertion   *)
(* order.  "x" and "y" stand for the characters of the horse names, ":"    *)
(* for both colons, " " for the white space, "(" and ")" for both kinds of *)
(* brackets.                                                               *)
(***************************************************************************)
MaxReplyLines == 2
MaxRows == 2

GradeLetters == {"S", "A", "B", "C", "D", "E"}
IsSpace(c) == c = " "
IsColon(c) == c = ":"

\* \s*: the first index from i on that holds no white space (Len + 1 if none)
SkipSpaces(line, i) ==
  CHOOSE j \in i..(Len(line) + 1) :
    /\ j = Len(line) + 1 \/ ~IsSpace(line[j])
    /\ \A k \in i..(j - 1) : IsSpace(line[k])

\* [^\s　]+ from i, where a character that is no white space stands: its last index
RunEnd(line, i) ==
  CHOOSE j \in i..Len(line) :
    /\ \A k \in i..j : ~IsSpace(line[k])
    /\ j = Len(line) \/ IsSpace(line[j + 1])

NoMatch == [ok |-> FALSE, g |-> "", n |-> <<>>]
Match(g, n) == [ok |-> TRUE, g |-> g, n |-> n]

\* the match of ([SABCDE])\s*[:：]?\s*([^\s　]+) that starts at i: the colon is
\* taken when a name follows it, and is the name itself when nothing does
MatchAt(line, i) ==
  IF line[i] \notin GradeLetters THEN NoMatch
  ELSE LET j1 == SkipSpaces(line, i + 1) IN
    IF j1 > Len(line) THEN NoMatch
    ELSE IF IsColon(line[j1])
      THEN LET j2 == SkipSpaces(line, j1 + 1) IN
           IF j2 <= Len(line)
             THEN Match(line[i], SubSeq(line, j2, RunEnd(line, j2)))
             ELSE Match(line[i], SubSeq(line, j1, RunEnd(line, j1)))
    ELSE Match(line[i], SubSeq(line, j1, RunEnd(line, j1)))

\* re.search: the match at the leftmost index that has one
re_search(line) ==
  LET starts == {i \in 1..Len(line) : MatchAt(line, i).ok} IN
  IF starts = {} THEN NoMatch
  ELSE MatchAt(line, CHOOSE i \in starts : \A j \in starts : i <= j)

\* re.sub(r"[（\(].*?[）\)]", "", s): every bracket with the nearest closing
\* bracket after it is removed, from the left
RECURSIVE RemoveBrackets(_)
RemoveBrackets(s) ==
  IF s = <<>> THEN <<>>
  ELSE LET closing == {j \in 2..Len(s) : s[j] = ")"} IN
    IF s[1] = "(" /\ closing # {}
      THEN RemoveBrackets(SubSeq(s, (CHOOSE j \in closing : \A k \in closing : j <= k) + 1,
                                 Len(s)))
      ELSE <<s[1]>> \o RemoveBrackets(Tail(s))

\* grades[n] = g: a new key goes to the end, a key that exists keeps its place
DictSet(d, n, g) ==
  IF \E i \in 1..Len(d) : d[i][1] = n
    THEN [i \in 1..Len(d) |-> IF d[i][1] = n THEN <<n, g>> ELSE d[i]]
    ELSE Append(d, <<n, g>>)

\* grades.get(name, "")
DictGet(d, name) ==
  IF \E i \in 1..Len(d) : d[i][1] = name
    THEN d[CHOOSE i \in 1..Len(d) : d[i][1] = name][2]
    ELSE ""

\* the body of the for loop of _parse_grades_from_ai for one line
ParseLine(grades, line) ==
  LET m == re_search(line) IN
  IF m.ok
    THEN LET n == RemoveBrackets(m.n) IN
         IF n # <<>> THEN DictSet(grades, n, m.g) ELSE grades
    ELSE grades

RECURSIVE _parse_grades_from_ai(_)
_parse_grades_from_ai(text) ==
  IF text = <<>> THEN <<>>
  ELSE ParseLine(_parse_grades_from_ai(SubSeq(text, 1, Len(text) - 1)), text[Len(text)])

\* sub in s
Contains(s, sub) ==
  \E i \in 0..(Len(s) - Len(sub)) : SubSeq(s, i + 1, i + Len(sub)) = sub

\* for k, v in grades.items(): if k in name or name in k: grade = v; break
FirstSubstringGrade(grades, name) ==
  LET hits == {i \in 1..Len(grades) : Contains(name, grades[i][1]) \/ Contains(grades[i][1], name)}
  IN IF hits = {} THEN ""
     ELSE grades[CHOOSE i \in hits : \A j \in hits : i <= j][2]

\* the loop over the items tried before the exact name
GradeOf_SubstringFirst(grades, name) ==
  LET grade == FirstSubstringGrade(grades, name) IN
  IF grade = "" THEN DictGet(grades, name) ELSE grade

\* grade = grades.get(name, ""); if not grade: the loop over the items
GradeOf(grades, name) ==
  LET grade == DictGet(grades, name) IN
  IF grade = "" THEN FirstSubstringGrade(grades, name) ELSE grade

\* the texts of a rank cell: digits, the two words for a horse that did not
\* finish, and a cell without a rank
Digits == {"1", "2"}
RankInt(rnk) == IF rnk = "1" THEN 1 ELSE 2
ValidRank(rnk) == rnk # "" /\ (rnk \in Digits \/ rnk \in {"excluded", "stopped"})
SortKey(rnk) == IF rnk \in Digits THEN RankInt(rnk) ELSE 999

\* races[i]["results"] after the loop over the rows, as <<sort, rank, name, grade>>
RECURSIVE ResultsOfRace(_, _, _)
ResultsOfRace(rows, i, grades) ==
  IF rows = <<>> THEN <<>>
  ELSE LET rest == ResultsOfRace(SubSeq(rows, 1, Len(rows) - 1), i, grades)
           row == rows[Len(rows)]
       IN IF i <= Len(row.cells) /\ ValidRank(row.cells[i])
            THEN Append(rest, <<SortKey(row.cells[i]), row.cells[i], row.name,
                                GradeOf(grades, row.name)>>)
            ELSE rest

\* f"{x['rank']}着 {x['name']}{g}" for the sorted results of one race
RaceLine(title, results) ==
  LET sorted == SortByKey(results) IN
  [title |-> title,
   parts |-> [k \in 1..Len(sorted) |->
                [rank |-> sorted[k][2], name |-> sorted[k][3], g |-> sorted[k][4]]]]

RECURSIVE RaceLines(_, _, _)
RaceLines(titles, rows, grades) ==
  IF titles = <<>> THEN <<>>
  ELSE LET rest == RaceLines(SubSeq(titles, 1, Len(titles) - 1), rows, grades)
           results == ResultsOfRace(rows, Len(titles), grades)
       IN IF results = <<>> THEN rest
          ELSE Append(rest, RaceLine(titles[Len(titles)], results))

TableHeading == [title |-> "matchup table with AI grades", parts |-> <<>>]
Note(text) == <<[title |-> text, parts |-> <<>>]>>

\* what the function returns for the page the browser shows
_fetch_matchup_table_selenium(page, grades) ==
  IF page.kind = "raises" THEN Note("matchup table error")
  ELSE IF page.kind \in {"timeout", "no table"} THEN Note("no matchup data")
  ELSE IF page.titles = <<>> THEN Note("first meeting")
  ELSE <<TableHeading>> \o RaceLines(page.titles, page.rows, grades)

\* the lines an AI reply is made of
ReplyLines ==
  { <<"S", ":", "x", "y">>,                 \* S:xy
    <<"A", " ", "x">>,                      \* A x
    <<"B", ":", " ", "y", "(", "x", ")">>,  \* B: y(x)
    <<"C", ":", "x", "y">>,                 \* C:xy
    <<"x", " ", "D", ":">>,                 \* x D:
    <<"y", " ", "x">> }                     \* y x
Replies == SeqsUpTo(ReplyLines, MaxReplyLines)

\* the rows of the table body: the horse name and its rank cell in each race
TableRow(name, cells) == [name |-> name, cells |-> cells]
TableRows ==
  { TableRow(<<"x", "y">>, <<"2">>),
    TableRow(<<"x", "y">>, <<"1">>),
    TableRow(<<"x">>, <<"1">>),
    TableRow(<<"y", "x">>, <<"excluded">>),
    TableRow(<<"y", "y">>, <<"2">>),
    TableRow(<<"y">>, <<"">>) }
Tables == SeqsUpTo(TableRows, MaxRows)
Page(kind, titles, rows) == [kind |-> kind, titles |-> titles, rows |-> rows]
Pages ==
  {Page("table", <<"race">>, rows) : rows \in Tables}
    \cup {Page(kind, <<>>, <<>>) : kind \in {"raises", "timeout", "no table", "table"}}

GradesInit ==
  /\ g_pc = "parse"
  /\ g_text \in Replies
  /\ g_rows \in Pages
  /\ g_grades = <<>>
  /\ g_out = <<>>

GradesIdle ==
  /\ g_pc = "idle"
  /\ g_text = <<>>
  /\ g_rows = Page("idle", <<>>, <<>>)
  /\ g_grades = <<>>
  /\ g_out = <<>>

\* grades = _parse_grades_from_ai(ai_out)
ParseGrades ==
  /\ g_pc = "parse"
  /\ g_grades' = _parse_grades_from_ai(g_text)
  /\ g_pc' = "fetch"
  /\ UNCHANGED <<g_text, g_rows, g_out, dvars, nvars, rvars, mvars>>

\* match_txt = _fetch_matchup_table_selenium(driver, nk_id, grades)
FetchMatchup ==
  /\ g_pc = "fetch"
  /\ g_out' = _fetch_matchup_table_selenium(g_rows, g_grades)
  /\ g_pc' = "done"
  /\ UNCHANGED <<g_text, g_rows, g_grades, dvars, nvars, rvars, mvars>>

(***************************************************************************)
(* Specifications                                                          *)
(***************************************************************************)
InitDify == DifyInit /\ NormIdle /\ RacesIdle /\ MainIdle /\ GradesIdle
NextDify ==
  \/ DifyStart
  \/ DifyPost
  \/ DifyLine
  \/ DifyStreamBreak
  \/ DifyStreamEnd
  \/ DifyExhausted
SpecDify == InitDify /\ [][NextDify]_vars

InitNorm == NormInit /\ DifyIdle /\ RacesIdle /\ MainIdle /\ GradesIdle
NextNorm == NormCall
SpecNorm == InitNorm /\ [][NextNorm]_vars

Init == RacesInit /\ DifyIdle /\ NormIdle /\ MainIdle /\ GradesIdle
Next ==
  \/ MainStart
  \/ Start
  \/ ResolveKaiNichi
  \/ Login
  \/ Program
  \/ Loop
  \/ Kb
  \/ Detail
  \/ Build
  \/ Built
  \/ Dify
  \/ Matchup
  \/ Emit
  \/ Except
  \/ Fatal
  \/ Finally
Spec == Init /\ [][Next]_vars

InitMain == MainInit /\ DifyIdle /\ NormIdle /\ RacesIdle /\ GradesIdle
NextMain ==
  \/ Load
  \/ SelectAll
  \/ DeselectAll
  \/ Toggle
  \/ StartClick
  \/ ClearClick
SpecMain == InitMain /\ [][NextMain]_vars

InitGrades == GradesInit /\ DifyIdle /\ NormIdle /\ RacesIdle /\ MainIdle
NextGrades ==
  \/ ParseGrades
  \/ FetchMatchup
SpecGrades == InitGrades /\ [][NextGrades]_vars

(***************************************************************************)
(* Properties of run_dify_prediction (checked under SpecDify)              *)
(***************************************************************************)
Count(seq, P(_)) == Cardinality({i \in 1..Len(seq) : P(seq[i])})
Is429(o) == o = ToString(429)
Is5xx(o) == o \in {ToString(st) : st \in status_forcelist}
Failed(o) == o \in {"exception", "broken"}

\* The i-th POST, answered with an outcome of the class P, was not returned to
\* the caller: another POST followed or is about to follow, and only after the
\* last allowed POST does the function return, with the retry-limit text.
RetriedAfter(P(_)) ==
  \A i \in 1..Len(d_resp) : P(d_resp[i]) =>
    IF i < max_retries
      THEN i < Len(d_resp) \/ (d_pc = "post" /\ d_ret = NoValue)
      ELSE \/ d_pc = "post" /\ d_ret = NoValue
           \/ d_pc = "done" /\ d_ret = PyStr(MSG_RETRY_LIMIT)

\* C1: a POST answered with 429 is never returned as an error: the function
\* sleeps 60 s for each and posts again, makes at most 3 POSTs, and returns the
\* retry-limit text only when the third POST too was answered with 429.
C1_Retry429 ==
  /\ d_posts <= 3
  /\ Len(d_resp) = d_posts
  /\ RetriedAfter(Is429)
  /\ d_slept >= 60 * Count(d_resp, Is429)

C1_Witness ==
  /\ d_pc = "done"
  /\ d_resp = <<ToString(429), ToString(429), ToString(429)>>
  /\ d_ret = PyStr(MSG_RETRY_LIMIT)
  /\ d_slept = 180

\* C2: a POST answered with 500, 502, 503 or 504 is retried like a 429, and
\* does not end the call with the Dify Error text.
C2_Retry5xx ==
  /\ RetriedAfter(Is5xx)
  /\ d_pc = "done" => d_ret \notin {PyStr(DifyError(st)) : st \in status_forcelist}

\* C3: run_dify_prediction always ends (it can take a step until it has
\* returned), returns a string, makes at most 3 POSTs, and returns the
\* retry-limit text when every attempt timed out or failed.
C3_AlwaysReturnsString ==
  /\ d_pc = "done" \/ ENABLED NextDify
  /\ d_posts <= 3
  /\ d_pc = "done" => IsStr(d_ret)
  /\ (d_pc = "done" /\ d_key /\ \A i \in 1..Len(d_resp) : Failed(d_resp[i]))
       => d_posts = 3 /\ d_ret = PyStr(MSG_RETRY_LIMIT)

\* What holds of C3 on the code: everything but the type of the value, which
\* is outputs["text"] as the server sent it when a workflow_finished event
\* carries one.
DifyReturnLemma ==
  /\ d_pc = "done" \/ ENABLED NextDify
  /\ d_posts <= 3
  /\ d_pc = "done" =>
       \/ IsStr(d_ret)
       \/ \E l \in Lines : l.event = "workflow_finished" /\ l.outputs = "text" /\ d_ret = l.text
  /\ (d_pc = "done" /\ d_key /\ \A i \in 1..Len(d_resp) : Failed(d_resp[i]))
       => d_posts = 3 /\ d_ret = PyStr(MSG_RETRY_LIMIT)

(***************************************************************************)
(* Properties of run_races_iter and main() (checked under Spec)            *)
(***************************************************************************)
Last(seq) == seq[Len(seq)]
IsStatus(e, tag) == e.type = "status" /\ e.data[1] = tag
\* the index of the status event that starts race r, 0 when there is none
StartIdx(r) ==
  IF \E i \in 1..Len(events) : IsStatus(events[i], "analysing") /\ events[i].data[2] = r
    THEN CHOOSE i \in 1..Len(events) : IsStatus(events[i], "analysing") /\ events[i].data[2] = r
    ELSE 0
Started == {r \in 1..LastRace : StartIdx(r) > 0}
\* the events yielded while race r was being processed
EventsOf(r) ==
  {i \in 1..Len(events) :
     /\ i > StartIdx(r)
     /\ \A r2 \in Started : StartIdx(r2) > StartIdx(r) => i < StartIdx(r2)}
ResultsOf(r) == {i \in EventsOf(r) : events[i].type = "result"}
ErrorsOf(r) == {i \in EventsOf(r) : events[i].type = "error"}

\* the step that follows each step within one attempt
StepAfter(step) ==
  CASE step = "kb" -> "detail"
    [] step = "detail" -> "prompt"
    [] step = "prompt" -> "dify"
    [] step = "dify" -> "matchup"
    [] step = "matchup" -> "result"
    [] OTHER -> "none"

\* C4: in dify mode the steps of a race happen in the order keibabook fetch,
\* detail fetch and parse, prompt build, Dify call, matchup fetch, result
\* event; an attempt is cut short only by a retry or an error event; the
\* matchup fetch comes right after the Dify call of the same attempt; and a
\* later race starts only after the earlier one has yielded its result or error.
C4_Sequential ==
  mode = "dify" =>
    /\ log # <<>> => log[1].step = "kb" /\ log[1].attempt = 0
    /\ \A i \in 1..(Len(log) - 1) :
         LET x == log[i]
             y == log[i + 1]
         IN IF x.race = y.race /\ x.attempt = y.attempt
              THEN \/ y.step = StepAfter(x.step)
                   \/ y.step = "error" /\ x.step \in {"detail", "dify"}
            ELSE IF x.race = y.race
              THEN /\ y.attempt = x.attempt + 1
                   /\ y.step = "kb"
                   /\ x.step \in {"detail", "dify"}
            ELSE /\ x.step \in {"result", "error"}
                 /\ y.race > x.race
                 /\ y.step = "kb" /\ y.attempt = 0
    /\ \A i \in 1..Len(log) : log[i].step = "matchup" =>
         /\ i > 1
         /\ log[i - 1] = [log[i] EXCEPT !.step = "dify"]
         /\ calls.matchup <= calls.dify

C4_Witness ==
  /\ mode = "dify"
  /\ pc = "done"
  /\ \E i, j \in 1..Len(log) :
       /\ i < j
       /\ log[i].step = "error" /\ log[i].race = 1
       /\ log[j].step = "result" /\ log[j].race = 2 /\ log[j].attempt = 1

EventTypes == {"status", "result", "error"}
OfType(type) == SelectSeq(events, LAMBDA e : e.type = type)

\* C5: every event yielded has a type among status, result, error and a data
\* field, and a result event a race_num; main() handles each of them in one of
\* its three branches: a status event sets the status area, an error event is
\* shown, a result event is stored in results_cache and shown.
C5_EventShapes ==
  LET errs == OfType("error")
      ress == OfType("result")
  IN /\ \A i \in 1..Len(events) :
          /\ {"type", "data"} \subseteq DOMAIN events[i]
          /\ events[i].type \in EventTypes
          /\ events[i].type = "result" => "race_num" \in DOMAIN events[i]
     /\ ui.unhandled = <<>>
     /\ ui.errors = [i \in 1..Len(errs) |-> errs[i].data]
     /\ ui.shown = [i \in 1..Len(ress) |-> ress[i].race_num]
     /\ pc # "main" => DOMAIN ui.results_cache = {ress[i].race_num : i \in 1..Len(ress)}
     /\ \A i \in 1..Len(ress) :
          (\A j \in (i + 1)..Len(ress) : ress[j].race_num # ress[i].race_num)
            => ui.results_cache[ress[i].race_num] = ress[i].data
     /\ (events # <<>> /\ Last(events).type = "status") => ui.status_area = Last(events).data

C5_Witness ==
  /\ pc = "done"
  /\ \E i, j, k \in 1..Len(events) :
       /\ IsStatus(events[i], "retry after error")
       /\ events[j].type = "error"
       /\ events[k].type = "result"
  /\ Len(ui.errors) = 1
  /\ DOMAIN ui.results_cache = {2}

\* C6: every race that is started gets at most 3 attempts and exactly one
\* terminal event, a result or an error, and after a race that ended in an
\* error the generator goes on to the selected races that remain.
C6_OneTerminalEvent ==
  pc = "done" =>
    \A r \in Started :
      /\ Cardinality({i \in 1..Len(log) : log[i].race = r /\ log[i].step = "kb"}) <= 3
      /\ Cardinality(ResultsOf(r)) + Cardinality(ErrorsOf(r)) = 1
      /\ ErrorsOf(r) # {} =>
           \A r2 \in Range(r_nums) \cap target_races : r2 > r => r2 \in Started

\* C7: a keibabook failure never stops the run. Neither the login step nor
\* the comment fetch raises or yields anything: the run goes on to the next
\* step; and the prompt holds the placeholder texts for every horse that the
\* maps returned do not list.
C7_KeibabookNeverStops ==
  /\ [][/\ pc = "login" => pc' = "program" /\ events' = events
        /\ pc = "kb" => pc' = "detail" /\ events' = events]_vars
  /\ [](pc = "built" =>
          \A i \in 2..Len(full_prompt) :
            LET u == full_prompt[i][1][2] IN
            /\ u \notin DOMAIN danwa => full_prompt[i][2] = <<"danwa", NoComment>>
            /\ u \notin DOMAIN cyokyo => full_prompt[i][3] = <<"cyokyo", NoTraining>>)

\* the race just ended with a result although its comment fetch failed at once
C7_Witness ==
  /\ pc = "loop"
  /\ events # <<>> /\ Last(events).type = "result"
  /\ danwa = EmptyMap /\ cyokyo = EmptyMap
  /\ Len(full_prompt) > 1
  /\ \A i \in 2..Len(full_prompt) :
       /\ full_prompt[i][2] = <<"danwa", NoComment>>
       /\ full_prompt[i][3] = <<"cyokyo", NoTraining>>

\* C8: when get_nankan_kai_nichi finds no meeting, the generator yields the
\* first status event and one error event and ends: no login, no programme
\* page, no race step, no Dify call, no result.
C8_KaiNichiFailure ==
  (calls.kai_nichi = 1 /\ kai = None) =>
    /\ pc \in {"finally", "done"}
    /\ Len(events) = 2
    /\ IsStatus(events[1], "resolving meeting")
    /\ events[2] = ErrorEvent(<<"meeting not found">>)
    /\ calls.login = 0 /\ calls.program = 0 /\ calls.kb = 0
    /\ calls.detail = 0 /\ calls.dify = 0 /\ calls.matchup = 0
    /\ log = <<>>
    /\ DOMAIN ui.results_cache = {}

C8_Witness ==
  /\ pc = "done"
  /\ calls.kai_nichi = 1 /\ kai = None
  /\ Len(events) = 2

\* C9: the prompt is one header line followed by exactly one block per horse
\* of the parsed detail page, in ascending order of int(umaban); a block is the
\* name/jockey/trainer line, the comment, the training text, the power line,
\* and after the label the recent-race lines in their order.
C9_PromptBlocks ==
  pc = "built" =>
    LET blocks == Tail(full_prompt)
        horses == nk_data.horses
    IN /\ full_prompt[1] = <<"header", r_num>>
       /\ Len(blocks) = Cardinality(DOMAIN horses)
       /\ \A u \in DOMAIN horses :
            Cardinality({i \in 1..Len(blocks) : blocks[i][1][2] = u}) = 1
       /\ \A i, j \in 1..Len(blocks) :
            i < j => IntOf(blocks[i][1][2]) <= IntOf(blocks[j][1][2])
       /\ \A i \in 1..Len(blocks) :
            LET b == blocks[i]
                u == b[1][2]
                h == horses[u]
            IN /\ b[1] = <<"name line", u, h.name, h.jockey, h.trainer>>
               /\ b[2][1] = "danwa"
               /\ b[3][1] = "cyokyo"
               /\ b[4] = h.display_power
               /\ Len(b) = 5 + Len(h.hist)
               /\ SubSeq(b, 6, Len(b)) = h.hist

C9_Witness ==
  /\ pc = "built"
  /\ Len(full_prompt) = 4
  /\ nk_data.order[1] = <<1, 0>>
  /\ full_prompt[4][1][2] = <<1, 0>>

(***************************************************************************)
(* Properties of normalize_name (checked under SpecNorm)                   *)
(***************************************************************************)
\* the indices of the full names that contain every character of clean
CandIdx(clean, full_list) ==
  {i \in 1..Len(full_list) : \A k \in 1..Len(clean) : \E m \in 1..Len(full_list[i]) :
                               full_list[i][m] = clean[k]}

\* C10: with clean the abbreviation without the stripped characters, the
\* result is "" when clean is empty, clean when the list is empty or has clean,
\* else the full name containing every character of clean with the smallest
\* len(full) - len(clean), the earliest in the list on ties, else clean; so it
\* is clean or a member of the list.
C10_NormalizeName ==
  n_pc = "done" =>
    LET clean == SelectSeq(n_abbrev, LAMBDA c : c \in Letters)
        cand == CandIdx(clean, n_list)
    IN /\ clean = <<>> => n_result = <<>>
       /\ (clean # <<>> /\ (n_list = <<>> \/ \E i \in 1..Len(n_list) : n_list[i] = clean))
            => n_result = clean
       /\ (clean # <<>> /\ (\A i \in 1..Len(n_list) : n_list[i] # clean) /\ cand # {})
            => \E i \in cand :
                 /\ n_result = n_list[i]
                 /\ \A j \in cand : Len(n_list[i]) - Len(clean) <= Len(n_list[j]) - Len(clean)
                 /\ \A j \in cand : Len(n_list[j]) = Len(n_list[i]) => i <= j
       /\ (clean # <<>> /\ n_list # <<>> /\ cand = {}) => n_result = clean
       /\ n_result = clean \/ \E i \in 1..Len(n_list) : n_result = n_list[i]

\* two full names tie, and the earlier one is returned
C10_Witness ==
  /\ n_pc = "done"
  /\ n_abbrev = <<"1", "a">>
  /\ n_list = <<<<"a", "b">>, <<"b", "a">>>>
  /\ n_result = <<"a", "b">>

(***************************************************************************)
(* Properties of run_races_iter in raw mode, of its race order, of the     *)
(* driver and of results_cache (checked under Spec)                        *)
(***************************************************************************)
\* C12: in raw mode run_races_iter never calls run_dify_prediction and never
\* fetches the matchup table, whatever the race and the attempt, and every
\* result event it yields carries the prompt just built for that race followed
\* by the detail link of that race, and nothing else.
C12_RawMode ==
  /\ [](mode = "raw" =>
          /\ calls.dify = 0 /\ calls.matchup = 0
          /\ \A i \in 1..Len(log) : log[i].step \notin {"dify", "matchup"}
          /\ \A i \in 1..Len(events) : events[i].type = "result" =>
               /\ DOMAIN events[i].data = {"prompt", "link"}
               /\ events[i].data.prompt[1] = <<"header", events[i].race_num>>
               /\ events[i].data.link = <<kai, nichi, events[i].race_num>>)
  /\ [][(mode = "raw" /\ Len(events') > Len(events) /\ Last(events').type = "result")
          => /\ pc = "built"
             /\ Last(events').data.prompt = full_prompt
             /\ Last(events').race_num = r_num]_vars

\* a raw run ended with a result of race 1 at once and a result of race 2 on
\* the second attempt
C12_Witness ==
  /\ mode = "raw"
  /\ pc = "done"
  /\ \E i, j \in 1..Len(log) :
       /\ log[i].step = "result" /\ log[i].race = 1 /\ log[i].attempt = 0
       /\ log[j].step = "result" /\ log[j].race = 2 /\ log[j].attempt = 1
  /\ Len(OfType("result")) = 2

PerRaceErrors == {"empty data", "gave up"}

\* C14: with a non-empty target set, every result event and every per-race
\* error event is about a race of the target set, the races are taken up in
\* strictly ascending race number, and no race number gets two result events.
C14_TargetOnly ==
  target_races # {} =>
    LET ress == OfType("result")
        anas == SelectSeq(events, LAMBDA e : IsStatus(e, "analysing"))
    IN /\ \A i \in 1..Len(events) :
            /\ events[i].type = "result" => events[i].race_num \in target_races
            /\ (events[i].type = "error" /\ events[i].data[1] \in PerRaceErrors)
                 => events[i].data[2] \in target_races
       /\ \A i \in 1..Len(log) : log[i].race \in target_races
       /\ \A i \in 1..(Len(anas) - 1) : anas[i].data[2] < anas[i + 1].data[2]
       /\ \A i \in 1..(Len(log) - 1) : log[i].race <= log[i + 1].race
       /\ \A i \in 1..(Len(ress) - 1) : ress[i].race_num < ress[i + 1].race_num

\* races 1 and 2 are on the programme page and only race 2 is selected: the
\* run ended with a result of race 2 after a retry, and nothing about race 1
C14_Witness ==
  /\ pc = "done"
  /\ target_races = {2}
  /\ r_nums = <<1, 2>>
  /\ \E i, j \in 1..Len(events) :
       /\ i < j
       /\ IsStatus(events[i], "retry after error")
       /\ events[j].type = "result" /\ events[j].race_num = 2

\* the positions of the generator: each but "done" has its step
PcLabels == {"main", "start", "kai", "login", "program", "loop", "kb", "detail", "build", "built",
             "dify", "matchup", "emit", "except", "fatal", "finally", "done"}

\* C15: the driver that run_races_iter creates is quit exactly once on every
\* way the generator ends: the generator ends only through the finally block,
\* which it enters after the last race, after the error event of a kai/nichi
\* failure, after the error event of the programme list timeout, or after the
\* "Fatal Error" event of the outer handler; the quit is the last step and no
\* position before the end is without a step.
C15_DriverQuitOnce ==
  /\ [](/\ calls.get_driver <= 1
        /\ calls.quit <= 1
        /\ (pc = "done") <=> (calls.quit = 1)
        /\ calls.quit = 1 => calls.get_driver = 1
        /\ pc \in PcLabels)
  /\ [][/\ pc' = "done" => /\ pc = "finally"
                           /\ calls'.quit = calls.quit + 1
                           /\ events' = events
        /\ pc' = "finally" =>
             \/ pc = "loop" /\ r_idx > Len(r_nums) /\ events' = events
             \/ pc = "kai" /\ Last(events') = ErrorEvent(<<"meeting not found">>)
             \/ pc = "program" /\ Last(events') = ErrorEvent(<<"program list timeout">>)
             \/ pc = "fatal" /\ Last(events') = ErrorEvent(<<"Fatal Error">>)
        /\ pc = "fatal" => pc' = "finally" /\ calls' = calls]_vars

\* an exception inside the retry handler of a race reached the outer handler:
\* the Fatal Error event is the last event and the driver has been quit
C15_Witness ==
  /\ pc = "done"
  /\ calls.quit = 1
  /\ log # <<>>
  /\ Last(events) = ErrorEvent(<<"Fatal Error">>)

(***************************************************************************)
(* Properties of the race checkboxes of main() (checked under SpecMain)    *)
(***************************************************************************)
\* C13: after the "select all" button all 12 race checkboxes are checked and
\* after the "deselect all" button none is; at the end of every script run
\* st.session_state.selected_races is the list of the checked races, a subset
\* of 1..12 in ascending order; and run_races_iter is called only by the run
\* of the start button with a race checked, with exactly this set.
C13_SelectedRaces ==
  m_last # "none" =>
    /\ DOMAIN m_chk = Races
    /\ m_last = "select_all" => \A r \in Races : m_chk[r]
    /\ m_last = "deselect_all" => \A r \in Races : ~m_chk[r]
    /\ m_selected.present
    /\ Range(m_selected.value) = {r \in Races : m_chk[r]}
    /\ \A i, j \in 1..Len(m_selected.value) :
         i < j => m_selected.value[i] < m_selected.value[j]
    /\ m_passed.called <=> (m_last = "start" /\ m_selected.value # <<>>)
    /\ m_passed.called => m_passed.target_races = Range(m_selected.value)

\* select all, then race 5 is unchecked, then the start button
C13_Witness ==
  /\ m_last = "start"
  /\ m_passed.called
  /\ m_passed.target_races = Races \ {5}
  /\ m_selected.value = <<1, 2, 3, 4, 6, 7, 8, 9, 10, 11, 12>>

(***************************************************************************)
(* Properties of results_cache over one run of main() (checked under Spec) *)
(***************************************************************************)
\* C16: the run of the start button empties results_cache before the first
\* event, whatever an earlier run left in it; from then on results_cache holds
\* exactly the race numbers of the result events received in this run, each
\* with the text of its event, and a step that yields only status and error
\* events leaves it as it is.
C16_ResultsCache ==
  /\ [](pc # "main" =>
          LET ress == OfType("result") IN
          /\ DOMAIN ui.results_cache = {ress[i].race_num : i \in 1..Len(ress)}
          /\ \A i \in 1..Len(ress) : ui.results_cache[ress[i].race_num] = ress[i].data)
  /\ [][/\ pc = "main" => ui'.results_cache = <<>> /\ events = <<>> /\ events' = <<>>
        /\ (\A i \in (Len(events) + 1)..Len(events') : events'[i].type # "result")
             => (pc # "main" => ui'.results_cache = ui.results_cache)]_vars

\* an earlier run had left results of races 2 and 3; this run ended with an
\* error for race 1 and a result for race 2, which is all the cache holds
C16_Witness ==
  /\ pc = "done"
  /\ DOMAIN ui.earlier = {2, 3}
  /\ DOMAIN ui.results_cache = {2}
  /\ ui.results_cache[2] # ui.earlier[2]
  /\ ui.errors # <<>>

(***************************************************************************)
(* Properties of the grades of the matchup table (checked under SpecGrades)*)
(***************************************************************************)
\* the horse a line of the reply names, and the lines that name a given horse
LineName(line) == IF re_search(line).ok THEN RemoveBrackets(re_search(line).n) ELSE <<>>
LinesNaming(name) == {l \in 1..Len(g_text) : name # <<>> /\ LineName(g_text[l]) = name}
\* the items of the grades dict whose name is in the horse name, or the reverse
SubstringItems(name) ==
  {i \in 1..Len(g_grades) : Contains(name, g_grades[i][1]) \/ Contains(g_grades[i][1], name)}
ExactItems(name) == {i \in 1..Len(g_grades) : g_grades[i][1] = name}

\* C11: in the matchup table every horse with a rank is listed with its grade:
\* a horse whose exact name is in the grades dict has the grade of that item,
\* which is the grade of the last line of the AI reply that names it; only a
\* horse without an exact item has the grade of a substring match (the first
\* item, in the order of the reply, whose name is in the horse name or the
\* reverse); and a horse that no item matches has no grade.
C11_GradeAnnotation ==
  (g_pc = "done" /\ g_rows.kind = "table" /\ g_rows.titles # <<>>) =>
    /\ g_out[1] = TableHeading
    /\ \A r \in 1..Len(g_rows.rows) :
         ValidRank(g_rows.rows[r].cells[1]) =>
           /\ Len(g_out) = 2
           /\ \E k \in 1..Len(g_out[2].parts) :
                /\ g_out[2].parts[k].name = g_rows.rows[r].name
                /\ g_out[2].parts[k].rank = g_rows.rows[r].cells[1]
    /\ \A l \in 2..Len(g_out) : \A k \in 1..Len(g_out[l].parts) :
         LET x == g_out[l].parts[k]
             exact == ExactItems(x.name)
             sub == SubstringItems(x.name)
             named == LinesNaming(x.name)
         IN /\ exact # {} =>
                 /\ \A i \in exact : x.g = g_grades[i][2]
                 /\ named # {}
                 /\ x.g = re_search(g_text[CHOOSE m \in named : \A n \in named : n <= m]).g
            /\ (exact = {} /\ sub # {}) =>
                 x.g = g_grades[CHOOSE i \in sub : \A j \in sub : i <= j][2]
            /\ sub = {} => x.g = ""
            /\ x.g # "" => x.g \in GradeLetters

\* the reply "A x / S:xy": horse xy has S, its own grade, although the item x
\* comes first and is part of its name; horse yx, named by no line, has the A
\* of x
C11_Witness ==
  /\ g_pc = "done"
  /\ g_grades = << << <<"x">>, "A" >>, << <<"x", "y">>, "S" >> >>
  /\ Len(g_out) = 2
  /\ g_out[2].parts = << [rank |-> "1", name |-> <<"x", "y">>, g |-> "S"],
                         [rank |-> "excluded", name |-> <<"y", "x">>, g |-> "A"] >>
====
